---- MODULE Spec2Model ----
(***************************************************************************)
(* Model of the MP3 upload pipeline of the Google-Search-Music-Player web   *)
(* application (Express + multer).  The server keeps one module-level       *)
(* variable, currentFilePath, naming the last accepted upload; every upload *)
(* request runs through multer (fileFilter, fileSize limit, disk storage),  *)
(* the /upload handler, checkMagicNumber, parseMP3Metadata and deleteFile.  *)
(* Each asynchronous completion (multer finishing, readFile's callback,     *)
(* mm.parseFile resolving, unlink settling) is one step of the event loop   *)
(* and therefore one action; steps of different requests interleave.        *)
(***************************************************************************)
EXTENDS Integers, Sequences, FiniteSets, TLC

\* ------------------------------------------------------------------ bounds
\* Number of upload requests the server receives in one run.
MaxReq == 3
\* Number of upload requests with a callback outstanding at the same time.
MaxInFlight == 2

\* ------------------------------------------------------- program constants
\* limits.fileSize of the multer instance, and the ceiling validateFile uses.
fileSize == 7000000
\* file.name.length > 70 in validateFile.
MaxNameLen == 70
\* let currentFilePath = null
Null == 0

Reqs == 1..MaxReq
\* Generated file names: 'mp3file-' + Date.now() + '-' + random, abstracted
\* to one number per distinct generated string.
Names == 1..MaxReq

VARIABLES
    disk,             \* uploads directory: name -> file content, or Absent
    currentFilePath,  \* the module-level slot (Null or a name)
    pc,               \* position of each request in the pipeline
    cand,             \* the multipart file part each request carries
    filename,         \* req.file.filename of each request (Null before staging)
    resp,             \* response sent for each request
    prevSeen,         \* argument of the deleteFile call of handler line 75
    delPrev,          \* state of that deleteFile call
    delSelf,          \* state of the deleteFile(filePath) call of parseMP3Metadata
    overlapped,       \* history: another request was in flight during this one
    crashed,          \* an exception escaped a callback: the process is gone
    lastFile,         \* the slot of the lastFile variant of the server
    naming,           \* two parts passing through the filename callback
    search            \* the requests of the /search route

\* The state outside the currentFilePath upload pipeline.
aux == <<lastFile, naming, search>>

vars == <<disk, currentFilePath, pc, cand, filename, resp, prevSeen, delPrev,
          delSelf, overlapped, crashed, lastFile, naming, search>>

Absent == [present |-> FALSE]

\* --------------------------------------------------------------- characters
Lower == {"a","b","c","d","e","f","g","h","i","j","k","l","m",
          "n","o","p","q","r","s","t","u","v","w","x","y","z"}
Upper == {"A","B","C","D","E","F","G","H","I","J","K","L","M",
          "N","O","P","Q","R","S","T","U","V","W","X","Y","Z"}
Digits == {"0","1","2","3","4","5","6","7","8","9"}

\* The character class [a-zA-Z0-9-_(). ] of regexName.
NameClass == Lower \cup Upper \cup Digits \cup {"-", "_", "(", ")", ".", " "}

\* /^[a-zA-Z0-9-_(). ]+\.mp3$/.test(s): one or more class characters, then
\* the literal ".mp3" at the very end.
regexName(s) ==
    /\ Len(s) >= 5
    /\ SubSeq(s, Len(s) - 3, Len(s)) = <<".", "m", "p", "3">>
    /\ \A i \in 1..(Len(s) - 4) : s[i] \in NameClass

\* validateFile(file) of the browser script: type, then size, then name.
validateFile(file) ==
    IF file.type # "audio/mpeg" THEN FALSE
    ELSE IF file.size >= fileSize THEN FALSE
    ELSE IF ~regexName(file.name) \/ Len(file.name) > MaxNameLen THEN FALSE
    ELSE TRUE

\* ------------------------------------------------------------ magic number
HexDigits == <<"0","1","2","3","4","5","6","7","8","9","a","b","c","d","e","f">>

HexByte(b) == <<HexDigits[(b \div 16) + 1], HexDigits[(b % 16) + 1]>>

RECURSIVE HexOf(_)
HexOf(bytes) ==
    IF bytes = <<>> THEN <<>> ELSE HexByte(Head(bytes)) \o HexOf(Tail(bytes))

\* data.toString('hex', start, end): the bytes start..end-1, as far as the
\* buffer reaches, two lowercase hex digits each.
toStringHex(data, start, end) ==
    HexOf(SubSeq(data, start + 1, IF end < Len(data) THEN end ELSE Len(data)))

\* The comparison of checkMagicNumber: data.toString('hex', 0, 3) == "494433".
MagicMatches(data) == toStringHex(data, 0, 3) = <<"4","9","4","4","3","3">>

\* ------------------------------------------------------------------ inputs
Id3 == <<73, 68, 51>>      \* the bytes 49 44 33

TrackName == <<"t","r","a","c","k","-","0","1",".","m","p","3">>
TraversalName ==
    <<".",".","/",".",".","/","e","t","c","/","p","a","s","s","w","d",".","m","p","3">>
LongName == [i \in 1..67 |-> "a"] \o <<".", "m", "p", "3">>

\* A file part: what the browser's File object declares (type, size, name)
\* and what the bytes are: data = the leading bytes, wellFormed = whether
\* mm.parseFile resolves on them, strippable = whether NodeID3.removeTags
\* returns true on them.
File(t, sz, nm, d, wf, st) ==
    [type |-> t, size |-> sz, name |-> nm, data |-> d,
     wellFormed |-> wf, strippable |-> st]

ValidFile     == File("audio/mpeg", 50, TrackName, Id3, TRUE, TRUE)
ForgedFile    == File("audio/mpeg", 50, TrackName, <<0, 0, 0>>, FALSE, FALSE)
CorruptFile   == File("audio/mpeg", 50, TrackName, Id3, FALSE, TRUE)
UnstrippableFile == File("audio/mpeg", 50, TrackName, Id3, TRUE, FALSE)
WrongTypeFile == File("text/plain", 50, TrackName, Id3, TRUE, TRUE)
TooLargeFile  == File("audio/mpeg", fileSize + 1, TrackName, Id3, TRUE, TRUE)
TraversalFile == File("audio/mpeg", 50, TraversalName, Id3, TRUE, TRUE)
LongNameFile  == File("audio/mpeg", 50, LongName, Id3, TRUE, TRUE)
ExactLimitFile == File("audio/mpeg", fileSize, TrackName, Id3, TRUE, TRUE)
AlmostLimitFile == File("audio/mpeg", fileSize - 1, TrackName, Id3, TRUE, TRUE)

NoFile == File("", 0, <<>>, <<>>, FALSE, FALSE)

\* The uploads a client can send in the concurrency model.
Candidates ==
    {ValidFile, ForgedFile, CorruptFile, UnstrippableFile, WrongTypeFile}

\* The uploads used to exercise the validation rules.
AllCandidates ==
    Candidates \cup {TooLargeFile, TraversalFile, LongNameFile,
                     ExactLimitFile, AlmostLimitFile}

\* ------------------------------------------------------------------ multer
\* fileFilter: cb(null, true) exactly for the declared type audio/mpeg.
fileFilter(file) == file.type = "audio/mpeg"

\* limits.fileSize: a part longer than the limit aborts the upload with
\* LIMIT_FILE_SIZE and multer removes what it wrote.
WithinLimits(file) == file.size <= fileSize

\* Whether the multipart parser reports the limit as reached for the part.
\* For a part of exactly fileSize bytes this depends on the parser multer is
\* installed with: one generation compares the byte count with >, the other
\* reports the limit as soon as the count equals it.
LimitReached(file) ==
    IF file.size > fileSize THEN {TRUE}
    ELSE IF file.size = fileSize THEN {TRUE, FALSE}
    ELSE {FALSE}

\* What diskStorage leaves in the uploads directory for an accepted part.
Stored(file) ==
    [present |-> TRUE, data |-> file.data, wellFormed |-> file.wellFormed,
     strippable |-> file.strippable, tags |-> TRUE]

Exists(n) == n # Null /\ disk[n].present

Files == {n \in Names : disk[n].present}

\* A request whose pipeline still has a callback outstanding.
Active(r) == pc[r] \in {"staged", "reading", "parsing"}

\* ------------------------------------------------------ generated names
\* Number of distinct values of Date.now() in the naming model.
MaxTime == 3

\* Date.now(), counted from the first upload.
Timestamps == 0..MaxTime

\* Math.random() * 1E9, as a whole part and a first decimal.
Randoms ==
    {[whole |-> w, tenth |-> t] : w \in {0, 1, 499999999, 999999999},
                                  t \in {0, 4, 5, 9}}

\* Math.round: halves go up.
MathRound(x) == IF x.tenth >= 5 THEN x.whole + 1 ELSE x.whole

\* The file object multer hands to the filename callback.
Part(field, original) ==
    [fieldname |-> field, originalname |-> original, mimetype |-> "audio/mpeg"]

\* The filename callback written the usual way, with the client's name in it.
filenameWithOriginal(file, now, random) ==
    <<file.fieldname, "-", now, "-", MathRound(random), "-">>
        \o file.originalname

\* storage.filename: file.fieldname + '-' + Date.now() + '-' +
\* Math.round(Math.random() * 1E9), as the sequence of its pieces.
storageFilename(file, now, random) ==
    <<file.fieldname, "-", now, "-", MathRound(random)>>

\* `/uploads/${req.file.filename}`
publicPath(name) == <<"/uploads/">> \o name

NoName == <<>>

NoNaming ==
    [a |-> Part("", <<>>), b |-> Part("", <<>>), now |-> 0,
     random |-> [whole |-> 0, tenth |-> 0],
     nameA |-> NoName, nameB |-> NoName, pathA |-> NoName, pathB |-> NoName]

ClientNames == {TrackName, TraversalName, <<"x", ".", "m", "p", "3">>}

\* Two parts of the same field that differ at most in the client's name,
\* meeting the same clock value and the same random draw.
NamingInputs ==
    {[NoNaming EXCEPT !.a = Part("mp3file", na), !.b = Part("mp3file", nb),
                      !.now = t, !.random = x] :
        na \in ClientNames, nb \in ClientNames, t \in Timestamps, x \in Randoms}

\* ------------------------------------------------------------ /search
\* Number of /search requests the server receives in one run.
MaxSearch == 3
\* isLength({ max: 100 })
MaxQueryLen == 100

SReqs == 1..MaxSearch

RECURSIVE TrimLeft(_)
TrimLeft(q) == IF q # <<>> /\ Head(q) = " " THEN TrimLeft(Tail(q)) ELSE q

RECURSIVE TrimRight(_)
TrimRight(q) ==
    IF q # <<>> /\ q[Len(q)] = " "
    THEN TrimRight(SubSeq(q, 1, Len(q) - 1)) ELSE q

\* The sanitizer trim() of the validation chain.
Trim(q) == TrimRight(TrimLeft(q))

\* body('query').trim().notEmpty().isLength({ max: 100 }): whether
\* validationResult(req).isEmpty().
QueryValid(q) == Len(Trim(q)) > 0 /\ Len(Trim(q)) <= MaxQueryLen

Queries ==
    { <<>>, <<" ", " ">>, <<"a">>, <<" ", "a", "b", " ">>,
      [i \in 1..MaxQueryLen |-> "a"],
      [i \in 1..(MaxQueryLen + 1) |-> "a"],
      <<" ">> \o [i \in 1..MaxQueryLen |-> "a"] }

\* sent: the status of every res.send call made for the request, in order.
NoSearch == [s \in SReqs |-> [pc |-> "idle", query |-> <<>>, sent |-> <<>>]]

\* The /search handler up to its first await: with validation errors the if
\* is skipped and line 116 sends them; otherwise fetch is started.
searchHandler(s, q) ==
    /\ search[s].pc = "idle"
    /\ \A t \in SReqs : t < s => search[t].pc # "idle"
    /\ search' = [search EXCEPT ![s] =
          IF QueryValid(q)
          THEN [pc |-> "fetching", query |-> q, sent |-> <<>>]
          ELSE [pc |-> "done", query |-> q, sent |-> <<200>>]]
    /\ UNCHANGED <<disk, currentFilePath, pc, cand, filename, resp, prevSeen,
                   delPrev, delSelf, overlapped, crashed, lastFile, naming>>

\* fetch and response.json() resolve: return res.send(data).
fetchResolved(s) ==
    /\ search[s].pc = "fetching"
    /\ search' = [search EXCEPT ![s].pc = "done",
                                ![s].sent = Append(@, 200)]
    /\ UNCHANGED <<disk, currentFilePath, pc, cand, filename, resp, prevSeen,
                   delPrev, delSelf, overlapped, crashed, lastFile, naming>>

\* fetch or response.json() rejects: the catch block sends the 500 answer
\* (line 113) and does not return, so control leaves the if and line 116
\* calls res.send once more.
fetchRejected(s) ==
    /\ search[s].pc = "fetching"
    /\ search' = [search EXCEPT ![s].pc = "done",
                                ![s].sent = Append(Append(@, 500), 200)]
    /\ UNCHANGED <<disk, currentFilePath, pc, cand, filename, resp, prevSeen,
                   delPrev, delSelf, overlapped, crashed, lastFile, naming>>

InitUpload ==
    /\ disk = [n \in Names |-> Absent]
    /\ currentFilePath = Null
    /\ pc = [r \in Reqs |-> "idle"]
    /\ cand = [r \in Reqs |-> NoFile]
    /\ filename = [r \in Reqs |-> Null]
    /\ resp = [r \in Reqs |-> "none"]
    /\ prevSeen = [r \in Reqs |-> Null]
    /\ delPrev = [r \in Reqs |-> "none"]
    /\ delSelf = [r \in Reqs |-> "none"]
    /\ overlapped = [r \in Reqs |-> FALSE]
    /\ crashed = FALSE

Init ==
    /\ InitUpload
    /\ lastFile = Null
    /\ naming = NoNaming
    /\ search = NoSearch

\* upload.single('mp3file') for request r carrying part c, with n the name
\* the filename callback generates.  A part the fileFilter or the size limit
\* refuses ends in next(err): Express answers 500 and the handler never runs.
\* Requests are numbered in order of arrival.
Upload(r, c, n) ==
    /\ ~crashed
    /\ pc[r] = "idle"
    /\ \A q \in Reqs : q < r => pc[q] # "idle"
    /\ cand' = [cand EXCEPT ![r] = c]
    /\ \E limit \in LimitReached(c) :
       IF fileFilter(c) /\ ~limit
       THEN /\ disk' = [disk EXCEPT ![n] = Stored(c)]
            /\ filename' = [filename EXCEPT ![r] = n]
            /\ pc' = [pc EXCEPT ![r] = "staged"]
            /\ resp' = resp
            /\ overlapped' = [q \in Reqs |->
                  IF q = r THEN \E o \in Reqs : Active(o)
                  ELSE overlapped[q] \/ Active(q)]
       ELSE /\ pc' = [pc EXCEPT ![r] = "done"]
            /\ resp' = [resp EXCEPT ![r] = "error500"]
            /\ UNCHANGED <<disk, filename, overlapped>>
    /\ UNCHANGED <<currentFilePath, prevSeen, delPrev, delSelf, crashed>>
    /\ UNCHANGED aux

\* The handler with the deleteFile(currentFilePath) call left out.
HandlerNoDelete(r) ==
    /\ ~crashed
    /\ pc[r] = "staged"
    /\ prevSeen' = [prevSeen EXCEPT ![r] = currentFilePath]
    /\ pc' = [pc EXCEPT ![r] = "reading"]
    /\ UNCHANGED <<disk, currentFilePath, cand, filename, resp, delPrev,
                   delSelf, overlapped, crashed>>
    /\ UNCHANGED aux

\* The synchronous body of the /upload handler (lines 72-79): compute
\* filePath, start deleteFile(currentFilePath) when the slot is set, start
\* readFile(filePath).
\* When the request carried no file part, req.file is undefined and line 72
\* throws; Express catches what a route handler throws synchronously and its
\* default error handler answers 500.
Handler(r) ==
    /\ ~crashed
    /\ pc[r] = "staged"
    /\ IF filename[r] = Null
       THEN /\ resp' = [resp EXCEPT ![r] = "error500"]
            /\ pc' = [pc EXCEPT ![r] = "done"]
            /\ UNCHANGED <<prevSeen, delPrev>>
       ELSE /\ prevSeen' = [prevSeen EXCEPT ![r] = currentFilePath]
            /\ delPrev' = [delPrev EXCEPT ![r] =
                  IF currentFilePath # Null THEN "pending" ELSE "none"]
            /\ pc' = [pc EXCEPT ![r] = "reading"]
            /\ resp' = resp
    /\ UNCHANGED <<disk, currentFilePath, cand, filename, delSelf,
                   overlapped, crashed>>
    /\ UNCHANGED aux

\* checkMagicNumber's readFile callback.  With err set, data is undefined
\* and data.toString throws inside the callback: nothing catches it.  On a
\* match it calls callback(true), which starts parseMP3Metadata; on a
\* mismatch it returns without calling callback at all.
readFileCallback(r, err) ==
    /\ ~crashed
    /\ pc[r] = "reading"
    /\ IF err
       THEN /\ crashed' = TRUE
            /\ pc' = pc
       ELSE /\ crashed' = crashed
            /\ pc' = [pc EXCEPT ![r] =
                  IF MagicMatches(disk[filename[r]].data)
                  THEN "parsing" ELSE "noCallback"]
    /\ UNCHANGED <<disk, currentFilePath, cand, filename, resp, prevSeen,
                   delPrev, delSelf, overlapped>>
    /\ UNCHANGED aux

\* readFile succeeds when the staged file is there to be read.
checkMagicNumber(r) == readFileCallback(r, ~Exists(filename[r]))

\* readFile fails with an I/O error although the file is there.
checkMagicNumberIOError(r) ==
    Exists(filename[r]) /\ readFileCallback(r, TRUE)

\* Whether await mm.parseFile(filePath) resolves.
ParseResolves(n) == Exists(n) /\ disk[n].wellFormed

\* NodeID3.removeTags(filePath): rewrites the file without its tags and
\* returns true, or returns the failure as a value; it does not throw.
removeTags(d, n) ==
    IF d[n].present /\ d[n].strippable
    THEN [d EXCEPT ![n].tags = FALSE]
    ELSE d

\* parseMP3Metadata after the await, followed on success by the handler's
\* inner callback (lines 82-84): the slot is set and the JSON answer sent.
\* When parseFile rejects, the catch starts deleteFile(filePath) and logs;
\* callback is not called.
parseMP3Metadata(r) ==
    /\ ~crashed
    /\ pc[r] = "parsing"
    /\ IF ParseResolves(filename[r])
       THEN /\ disk' = removeTags(disk, filename[r])
            /\ currentFilePath' = filename[r]
            /\ resp' = [resp EXCEPT ![r] = "json"]
            /\ pc' = [pc EXCEPT ![r] = "done"]
            /\ delSelf' = delSelf
       ELSE /\ delSelf' = [delSelf EXCEPT ![r] = "pending"]
            /\ pc' = [pc EXCEPT ![r] = "parseFailed"]
            /\ UNCHANGED <<disk, currentFilePath, resp>>
    /\ UNCHANGED <<cand, filename, prevSeen, delPrev, overlapped, crashed>>
    /\ UNCHANGED aux

\* deleteFile after its await: unlink removed the file, or it rejected
\* (the file was already gone) and the catch logged the error.
Unlinked(d, n) == [d EXCEPT ![n] = Absent]

\* deleteFile without its try/catch: a rejected unlink is an unhandled
\* rejection, which ends the process.
deleteFilePrevUncaught(r) ==
    /\ ~crashed
    /\ delPrev[r] = "pending"
    /\ disk' = Unlinked(disk, prevSeen[r])
    /\ delPrev' = [delPrev EXCEPT ![r] =
                      IF Exists(prevSeen[r]) THEN "deleted" ELSE "failed"]
    /\ crashed' = ~Exists(prevSeen[r])
    /\ UNCHANGED <<currentFilePath, pc, cand, filename, resp, prevSeen,
                   delSelf, overlapped>>
    /\ UNCHANGED aux

deleteFilePrev(r) ==
    /\ ~crashed
    /\ delPrev[r] = "pending"
    /\ disk' = Unlinked(disk, prevSeen[r])
    /\ delPrev' = [delPrev EXCEPT ![r] =
                      IF Exists(prevSeen[r]) THEN "deleted" ELSE "failed"]
    /\ UNCHANGED <<currentFilePath, pc, cand, filename, resp, prevSeen,
                   delSelf, overlapped, crashed>>
    /\ UNCHANGED aux

deleteFileSelf(r) ==
    /\ ~crashed
    /\ delSelf[r] = "pending"
    /\ disk' = Unlinked(disk, filename[r])
    /\ delSelf' = [delSelf EXCEPT ![r] =
                      IF Exists(filename[r]) THEN "deleted" ELSE "failed"]
    /\ UNCHANGED <<currentFilePath, pc, cand, filename, resp, prevSeen,
                   delPrev, overlapped, crashed>>
    /\ UNCHANGED aux

\* The name the filename callback generates is new: timestamp and random
\* suffix differ from those of every earlier upload.
FreshName(n) ==
    /\ \A q \in Reqs : filename[q] # n
    /\ n = Cardinality({q \in Reqs : filename[q] # Null}) + 1

\* Every step request r can still take.
Step(r) ==
    \/ Handler(r)
    \/ checkMagicNumber(r)
    \/ parseMP3Metadata(r)
    \/ deleteFilePrev(r)
    \/ deleteFileSelf(r)

\* A client sends the next upload.
Submit(r) ==
    /\ Cardinality({q \in Reqs : Active(q)}) < MaxInFlight
    /\ \E c \in Candidates, n \in Names : FreshName(n) /\ Upload(r, c, n)

Next ==
    \/ \E r \in Reqs : Submit(r)
    \/ \E r \in Reqs : Handler(r)
    \/ \E r \in Reqs : checkMagicNumber(r)
    \/ \E r \in Reqs : parseMP3Metadata(r)
    \/ \E r \in Reqs : deleteFilePrev(r)
    \/ \E r \in Reqs : deleteFileSelf(r)

Spec == Init /\ [][Next]_vars

\* Sequential uploads of every kind of candidate: the next upload is sent
\* only when no earlier one has a callback outstanding.
SubmitAny(r) ==
    /\ \A q \in Reqs : ~Active(q)
    /\ \E c \in AllCandidates, n \in Names : FreshName(n) /\ Upload(r, c, n)

NextValidate ==
    \/ \E r \in Reqs : SubmitAny(r)
    \/ \E r \in Reqs : Handler(r)
    \/ \E r \in Reqs : checkMagicNumber(r)
    \/ \E r \in Reqs : parseMP3Metadata(r)
    \/ \E r \in Reqs : deleteFilePrev(r)
    \/ \E r \in Reqs : deleteFileSelf(r)

SpecValidate == Init /\ [][NextValidate]_vars

\* upload.single('mp3file') for a request that carries no file part: multer
\* stores nothing, leaves req.file undefined and calls the handler.
UploadNoFile(r) ==
    /\ ~crashed
    /\ pc[r] = "idle"
    /\ \A q \in Reqs : q < r => pc[q] # "idle"
    /\ Cardinality({q \in Reqs : Active(q)}) < MaxInFlight
    /\ pc' = [pc EXCEPT ![r] = "staged"]
    /\ UNCHANGED <<disk, currentFilePath, cand, filename, resp, prevSeen,
                   delPrev, delSelf, overlapped, crashed>>
    /\ UNCHANGED aux

\* The filename callback does not look at the upload directory: timestamp
\* and random suffix may repeat those of an earlier upload, and diskStorage
\* then writes over the file of that name.
AnyName(n) == n <= Cardinality({q \in Reqs : filename[q] # Null}) + 1

SubmitColliding(r) ==
    /\ Cardinality({q \in Reqs : Active(q)}) < MaxInFlight
    /\ \E c \in Candidates, n \in Names : AnyName(n) /\ Upload(r, c, n)

\* The pipeline with its failure inputs: requests without a file part,
\* repeated generated names, read errors.
NextFault ==
    \/ \E r \in Reqs : SubmitColliding(r)
    \/ \E r \in Reqs : UploadNoFile(r)
    \/ \E r \in Reqs : Handler(r)
    \/ \E r \in Reqs : checkMagicNumber(r)
    \/ \E r \in Reqs : checkMagicNumberIOError(r)
    \/ \E r \in Reqs : parseMP3Metadata(r)
    \/ \E r \in Reqs : deleteFilePrev(r)
    \/ \E r \in Reqs : deleteFileSelf(r)

SpecFault == Init /\ [][NextFault]_vars

\* The filename callback runs for the first part, then for the second.
NameFirst ==
    /\ naming.nameA = NoName
    /\ naming' = [naming EXCEPT
                    !.nameA = storageFilename(naming.a, naming.now, naming.random)]
    /\ UNCHANGED <<disk, currentFilePath, pc, cand, filename, resp, prevSeen,
                   delPrev, delSelf, overlapped, crashed, lastFile, search>>

NameSecond ==
    /\ naming.nameB = NoName
    /\ naming' = [naming EXCEPT
                    !.nameB = storageFilename(naming.b, naming.now, naming.random)]
    /\ UNCHANGED <<disk, currentFilePath, pc, cand, filename, resp, prevSeen,
                   delPrev, delSelf, overlapped, crashed, lastFile, search>>

\* The success response of each upload carries the public path of its file.
PathFirst ==
    /\ naming.nameA # NoName /\ naming.pathA = NoName
    /\ naming' = [naming EXCEPT !.pathA = publicPath(naming.nameA)]
    /\ UNCHANGED <<disk, currentFilePath, pc, cand, filename, resp, prevSeen,
                   delPrev, delSelf, overlapped, crashed, lastFile, search>>

PathSecond ==
    /\ naming.nameB # NoName /\ naming.pathB = NoName
    /\ naming' = [naming EXCEPT !.pathB = publicPath(naming.nameB)]
    /\ UNCHANGED <<disk, currentFilePath, pc, cand, filename, resp, prevSeen,
                   delPrev, delSelf, overlapped, crashed, lastFile, search>>

InitNaming ==
    /\ InitUpload
    /\ lastFile = Null
    /\ search = NoSearch
    /\ naming \in NamingInputs

NextNaming == NameFirst \/ NameSecond \/ PathFirst \/ PathSecond

SpecNaming == InitNaming /\ [][NextNaming]_vars

NextSearch ==
    \/ \E s \in SReqs, q \in Queries : searchHandler(s, q)
    \/ \E s \in SReqs : fetchResolved(s)
    \/ \E s \in SReqs : fetchRejected(s)

SpecSearch == Init /\ [][NextSearch]_vars

\* ------------------------------------------ the lastFile variant (part_001)
\* The storage, fileFilter and limits of part_001 are those of part_000, so
\* Upload and Submit are shared; lastFile takes the place of currentFilePath.

\* Callback of fs.unlink: if (err) throw err.  The throw happens inside an
\* I/O callback, where nothing catches it.
unlinkCallback(d, n) == IF d[n].present THEN "deleted" ELSE "failed"

\* The synchronous body of the handler (lines 126-138): start
\* fs.unlink(lastFile) when lastFile is set, assign lastFile = filePath, start
\* readFile(filePath).
lastFileHandler(r) ==
    /\ ~crashed
    /\ pc[r] = "staged"
    /\ prevSeen' = [prevSeen EXCEPT ![r] = lastFile]
    /\ delPrev' = [delPrev EXCEPT ![r] =
          IF lastFile # Null THEN "pending" ELSE "none"]
    /\ lastFile' = filename[r]
    /\ pc' = [pc EXCEPT ![r] = "reading"]
    /\ UNCHANGED <<disk, currentFilePath, cand, filename, resp, delSelf,
                   overlapped, crashed, naming, search>>

\* fs.unlink(lastFile, ...) completes (lines 130-132).
unlinkLastFile(r) ==
    /\ ~crashed
    /\ delPrev[r] = "pending"
    /\ disk' = Unlinked(disk, prevSeen[r])
    /\ delPrev' = [delPrev EXCEPT ![r] = unlinkCallback(disk, prevSeen[r])]
    /\ crashed' = (unlinkCallback(disk, prevSeen[r]) = "failed")
    /\ UNCHANGED <<currentFilePath, pc, cand, filename, resp, prevSeen,
                   delSelf, overlapped, lastFile, naming, search>>

\* checkMagicNumber's readFile callback (lines 114-119): if (err) throw err;
\* callback(true) on a match, no call at all on a mismatch.
lastFileCheckMagicNumber(r) ==
    /\ ~crashed
    /\ pc[r] = "reading"
    /\ IF ~Exists(filename[r])
       THEN /\ crashed' = TRUE
            /\ pc' = pc
       ELSE /\ crashed' = crashed
            /\ pc' = [pc EXCEPT ![r] =
                  IF MagicMatches(disk[filename[r]].data)
                  THEN "parsing" ELSE "noCallback"]
    /\ UNCHANGED <<disk, currentFilePath, cand, filename, resp, prevSeen,
                   delPrev, delSelf, overlapped, lastFile, naming, search>>

\* parseMP3Metadata after its await (lines 99-110), followed by the .then of
\* the handler (lines 142-144).  When parseFile rejects, the catch block logs
\* and starts fs.unlink(filePath); it does not rethrow, so the promise the
\* async function returned is fulfilled on both paths and .then sends the
\* JSON answer; the .catch of lines 145-148 never runs.
lastFileParseMP3Metadata(r) ==
    /\ ~crashed
    /\ pc[r] = "parsing"
    /\ IF ParseResolves(filename[r])
       THEN /\ disk' = removeTags(disk, filename[r])
            /\ delSelf' = delSelf
       ELSE /\ disk' = disk
            /\ delSelf' = [delSelf EXCEPT ![r] = "pending"]
    /\ resp' = [resp EXCEPT ![r] = "json"]
    /\ pc' = [pc EXCEPT ![r] = "done"]
    /\ UNCHANGED <<currentFilePath, cand, filename, prevSeen, delPrev,
                   overlapped, crashed, lastFile, naming, search>>

\* fs.unlink(filePath, ...) of the catch block completes (lines 106-108).
unlinkParsed(r) ==
    /\ ~crashed
    /\ delSelf[r] = "pending"
    /\ disk' = Unlinked(disk, filename[r])
    /\ delSelf' = [delSelf EXCEPT ![r] = unlinkCallback(disk, filename[r])]
    /\ crashed' = (unlinkCallback(disk, filename[r]) = "failed")
    /\ UNCHANGED <<currentFilePath, pc, cand, filename, resp, prevSeen,
                   delPrev, overlapped, lastFile, naming, search>>

NextLastFile ==
    \/ \E r \in Reqs : Submit(r)
    \/ \E r \in Reqs : lastFileHandler(r)
    \/ \E r \in Reqs : unlinkLastFile(r)
    \/ \E r \in Reqs : lastFileCheckMagicNumber(r)
    \/ \E r \in Reqs : lastFileParseMP3Metadata(r)
    \/ \E r \in Reqs : unlinkParsed(r)

SpecLastFile == Init /\ [][NextLastFile]_vars

\* ------------------------------------------------------------------ claims
Staged(r) == filename[r] # Null

\* Request r has no step left to take: every callback it registered has run.
Resolved(r) == Staged(r) /\ ~ENABLED Step(r)

\* No request is waiting for a response and no unlink is outstanding.
Quiescent ==
    \A r \in Reqs :
        /\ pc[r] = "idle" \/ resp[r] # "none"
        /\ delPrev[r] # "pending"
        /\ delSelf[r] # "pending"

\* C1: the published file is deleted only by a request that has already
\* passed checkMagicNumber and parseMP3Metadata; a request that has not (yet)
\* succeeded has issued no deletion of the file the slot names.
C1_DeleteOnlyAfterVerified ==
    \A r \in Reqs :
        delPrev[r] # "none" => (pc[r] = "done" /\ resp[r] = "json")

\* C2: once a request whose staged file does not start with 49 44 33 has
\* run to the end, its staged file is gone from the upload directory and
\* the slot does not name it.
C2_MismatchDeletesStaged ==
    \A r \in Reqs :
        (Resolved(r) /\ ~MagicMatches(cand[r].data))
            => (~Exists(filename[r]) /\ currentFilePath # filename[r])

\* C3: once a request whose file passes the signature check but fails the
\* metadata parse has run to the end, its staged file is gone, the slot does
\* not name it, and the request has been answered with the parse error.
C3_ParseFailureRejected ==
    \A r \in Reqs :
        (Resolved(r) /\ MagicMatches(cand[r].data) /\ ~cand[r].wellFormed)
            => /\ ~Exists(filename[r])
               /\ currentFilePath # filename[r]
               /\ resp[r] = "error500"

\* C4: a staged request that has no step left to take has been answered.
C4_EveryStagedAnswered ==
    \A r \in Reqs : Resolved(r) => resp[r] # "none"

\* C5: with no request in flight the upload directory holds at most one
\* file, and when the slot is set that file is the one it names.
C5_AtMostOneFile ==
    Quiescent =>
        /\ Cardinality(Files) <= 1
        /\ currentFilePath # Null => Files = {currentFilePath}

\* The step in which request r is answered with its filePath.
Succeeds(r) == resp[r] = "none" /\ resp'[r] = "json"

C7_ConcurrentLeavesOne ==
    \A r1, r2 \in Reqs :
        (/\ r1 # r2
         /\ resp[r1] = "json" /\ resp[r2] = "json"
         /\ overlapped[r1] /\ overlapped[r2]
         /\ \A q \in Reqs \ {r1, r2} : pc[q] = "idle"
         /\ Quiescent)
            => /\ currentFilePath \in {filename[r1], filename[r2]}
               /\ Files = {currentFilePath}

\* C8: no two concurrent requests issue a deletion of the same previously
\* published path.
C8_NoDoubleDeletion ==
    \A r1, r2 \in Reqs :
        (/\ r1 # r2
         /\ overlapped[r1] /\ overlapped[r2]
         /\ delPrev[r1] # "none" /\ delPrev[r2] # "none")
            => prevSeen[r1] # prevSeen[r2]

\* C9: an upload that fails a validator check (type, size, or file name)
\* is rejected by the server and nothing is written for it.
C9_InvalidNeverStored ==
    \A r \in Reqs :
        (pc[r] # "idle" /\ ~validateFile(cand[r]))
            => (~Staged(r) /\ resp[r] = "error500")

\* C10: the slot starts empty, and it changes only to the staged path of a
\* request whose part passed the server's filter and limit, whose file
\* passed the signature check and the metadata parse, and whose tags have
\* been removed.
C10_SlotOnlyAfterSanitized ==
    /\ currentFilePath = Null
    /\ [][currentFilePath' # currentFilePath =>
            \E r \in Reqs :
                /\ currentFilePath' = filename[r]
                /\ pc[r] = "parsing"
                /\ fileFilter(cand[r]) /\ WithinLimits(cand[r])
                /\ Exists(filename[r])
                /\ MagicMatches(disk[filename[r]].data)
                /\ disk[filename[r]].wellFormed
                /\ ~disk'[filename[r]].tags]_vars

\* Both sanitization effects succeed on the part request r carries.
Sanitizable(r) == cand[r].wellFormed /\ cand[r].strippable

\* C11: an upload is answered with success only if the metadata parse and
\* the tag removal both succeeded; an upload whose tag removal fails is not
\* committed and its staged file is deleted.
C11_SuccessOnlyIfSanitized ==
    \A r \in Reqs :
        /\ resp[r] = "json" => Sanitizable(r)
        /\ (Resolved(r) /\ MagicMatches(cand[r].data) /\ cand[r].wellFormed
              /\ ~cand[r].strippable)
               => (~Exists(filename[r]) /\ currentFilePath # filename[r])

\* The HTTP status of a response: res.json answers 200; res.status(500) and
\* Express's default error handler (for an error without a status) answer 500.
StatusOf(x) ==
    CASE x = "json" -> 200
      [] x = "error500" -> 500
      [] OTHER -> 0

\* The status an unexpected error is answered with.
FaultStatus == StatusOf("error500")

\* Request r was refused: by multer's filter or limit, or because its staged
\* file failed the signature check or the metadata parse.
Rejected(r) ==
    \/ pc[r] = "done" /\ ~Staged(r) /\ cand[r] # NoFile
    \/ Resolved(r) /\ (~MagicMatches(cand[r].data) \/ ~cand[r].wellFormed)

\* C12: every rejection is answered with a 4xx status, which differs from
\* the status used for unexpected errors.
C12_RejectionsAreBadRequests ==
    \A r \in Reqs :
        Rejected(r) =>
            /\ StatusOf(resp[r]) \in 400..499
            /\ StatusOf(resp[r]) # FaultStatus

\* C13: a failing delete is swallowed: the step that answers a request with
\* success sets the slot to its staged path, and every request whose file
\* passes the signature check and sanitization has been answered with
\* success once it has no step left, whether its deleteFile call failed or
\* not.
C13_DeleteFailureSwallowed ==
    /\ [][\A r \in Reqs : Succeeds(r) => currentFilePath' = filename[r]]_vars
    /\ [](\A r \in Reqs :
            (Resolved(r) /\ MagicMatches(cand[r].data) /\ Sanitizable(r))
                => resp[r] = "json")

\* C13 witness: a request whose deleteFile(currentFilePath) failed (the file
\* was already gone) has been answered with success and the slot names its
\* file.
C13_Witness ==
    \E r \in Reqs :
        /\ delPrev[r] = "failed"
        /\ resp[r] = "json"
        /\ currentFilePath = filename[r]

\* C14: no exception escapes the pipeline: the process is never taken down
\* by a callback that throws, and a request without a file part that has
\* been handled has been answered with the server-fault response.
C14_NoUncaughtException ==
    /\ ~crashed
    /\ \A r \in Reqs :
          (pc[r] = "done" /\ cand[r] = NoFile) => resp[r] = "error500"

\* The step in which multer stages the part of request r.
Stages(r) == pc[r] = "idle" /\ pc'[r] = "staged" /\ filename'[r] # Null

\* C15: staging stores the new upload under a name no existing file has,
\* and leaves every file already in the upload directory as it is.
C15_CollisionTolerated ==
    [][\A r \in Reqs :
          Stages(r) =>
              /\ ~disk[filename'[r]].present
              /\ \A n \in Names : disk[n].present => disk'[n] = disk[n]]_vars

C17_NameIndependentOfClient ==
    /\ (naming.nameA # NoName /\ naming.nameB # NoName)
          => naming.nameA = naming.nameB
    /\ naming.nameA # NoName
          => naming.nameA = <<"mp3file", "-", naming.now, "-",
                              MathRound(naming.random)>>
    /\ naming.pathA # NoName
          => (Head(naming.pathA) = "/uploads/"
                /\ Tail(naming.pathA) = naming.nameA)
    /\ (naming.pathA # NoName /\ naming.pathB # NoName)
          => naming.pathA = naming.pathB

\* C17 witness: two parts with different client names have both been named
\* and answered.
C17_Witness ==
    /\ naming.a.originalname # naming.b.originalname
    /\ naming.pathA # NoName
    /\ naming.pathB # NoName

\* C19: the /search handler calls res.send at most once for a request, on
\* every path.
C19_AtMostOneSend ==
    \A s \in SReqs : Len(search[s].sent) <= 1

\* C18: in the lastFile variant a success response is sent only for a file
\* that passed the signature check and whose metadata parse succeeded, and
\* the file exists on storage when the response is sent; a parse failure
\* never yields a success response.
C18_LastFileSuccessOnlyIfParsed ==
    [][\A r \in Reqs :
          Succeeds(r) =>
              /\ MagicMatches(cand[r].data)
              /\ ParseResolves(filename[r])
              /\ disk'[filename[r]].present]_vars

====
